---- MODULE Spec2Model ----
(***************************************************************************)
(* Model of src/server.js: an express server that stores uploaded images   *)
(* and videos in the directory anhkiniem, lists them and deletes them.     *)
(*                                                                         *)
(* Strings that the code takes apart (file names, request parameters,      *)
(* paths) are sequences of one-character strings; a path is a sequence of  *)
(* such segments.  Strings that the code only compares (MIME types, the    *)
(* multipart field name) are TLA+ strings.                                 *)
(***************************************************************************)
EXTENDS Integers, Sequences, FiniteSets, TLC

\* ------------------------------------------------------------- bounds
\* Date.now() ranges over 1..MaxClock.
MaxClock == 2
\* Number of uploads that pass the filter and reach the disk storage.
MaxUploads == 2
\* Number of files found in the storage directory at start (SpecList).
MaxLegacy == 3

\* ------------------------------------------------------------ strings

Digits == <<"0", "1", "2", "3", "4", "5", "6", "7", "8", "9">>

RECURSIVE NatToStr(_)
\* Number-to-string conversion of the `+` at server.js:67 and :69.
NatToStr(n) ==
    IF n < 10 THEN <<Digits[n + 1]>>
    ELSE NatToStr(n \div 10) \o <<Digits[(n % 10) + 1]>>

\* The characters the regular expression class \s matches, among those used.
IsSpace(c) == c \in {" ", "\t"}

RECURSIVE DropSpaces(_)
DropSpaces(s) ==
    IF s # <<>> /\ IsSpace(Head(s)) THEN DropSpaces(Tail(s)) ELSE s

RECURSIVE ReplaceSpaces(_)
\* originalname.replace(/\s+/g, '_')
ReplaceSpaces(s) ==
    IF s = <<>> THEN <<>>
    ELSE IF IsSpace(Head(s)) THEN <<"_">> \o ReplaceSpaces(DropSpaces(Tail(s)))
    ELSE <<Head(s)>> \o ReplaceSpaces(Tail(s))

RECURSIVE Split(_, _)
\* String.prototype.split(c): the pieces between the occurrences of c.
Split(s, c) ==
    IF s = <<>> THEN << <<>> >>
    ELSE LET r == Split(Tail(s), c)
         IN  IF Head(s) = c THEN << <<>> >> \o r
             ELSE << <<Head(s)>> \o Head(r) >> \o Tail(r)

RECURSIVE Join(_, _)
\* Array.prototype.join(c)
Join(parts, c) ==
    IF parts = <<>> THEN <<>>
    ELSE IF Len(parts) = 1 THEN Head(parts)
    ELSE Head(parts) \o <<c>> \o Join(Tail(parts), c)

\* Array.prototype.slice(k): the elements from 0-based index k on.
Slice(parts, k) == SubSeq(parts, k + 1, Len(parts))

\* String.prototype.substring(1)
Substring1(s) == IF s = <<>> THEN <<>> ELSE Tail(s)

\* String.prototype.toLowerCase, on the letters the model's names use.
LowerChar(c) ==
    CASE c = "M" -> "m"
      [] c = "P" -> "p"
      [] c = "N" -> "n"
      [] c = "G" -> "g"
      [] OTHER -> c

ToLowerCase(s) == [i \in 1..Len(s) |-> LowerChar(s[i])]

\* Index of the last "." of s, 0 when there is none.
LastDot(s) ==
    LET dots == {i \in 1..Len(s) : s[i] = "."}
    IN  IF dots = {} THEN 0 ELSE CHOOSE i \in dots : \A j \in dots : j <= i

\* path.extname of a name without separators: from the last "." on, and
\* empty when there is no "." or the only "." is the first character.
ExtName(s) ==
    IF LastDot(s) <= 1 \/ s = <<".", ".">> THEN <<>>
    ELSE SubSeq(s, LastDot(s), Len(s))

RECURSIVE Normalize(_, _)
\* path.join's normalisation of an absolute path: "" and "." segments are
\* dropped, ".." removes the segment before it (and nothing at the root).
Normalize(segs, acc) ==
    IF segs = <<>> THEN acc
    ELSE IF Head(segs) \in {<<>>, <<".">>} THEN Normalize(Tail(segs), acc)
    ELSE IF Head(segs) = <<".", ".">>
         THEN Normalize(Tail(segs),
                        IF acc = <<>> THEN acc ELSE SubSeq(acc, 1, Len(acc) - 1))
    ELSE Normalize(Tail(segs), Append(acc, Head(segs)))

\* path.join(base, name) for an absolute, normalised base.
PathJoin(base, name) == Normalize(Split(name, "/"), base)

\* ------------------------------------------------- program constants

\* limits.fileSize of the multer instance.
FileSizeLimit == 20 * 1024 * 1024

allowedImageTypes == {"image/jpeg", "image/jpg", "image/png", "image/gif", "image/webp"}

allowedVideoTypes == {"video/mp4", "video/avi", "video/mov", "video/wmv", "video/flv", "video/webm"}

imageExtensions ==
    { <<"j","p","g">>, <<"j","p","e","g">>, <<"p","n","g">>, <<"g","i","f">>,
      <<"w","e","b","p">>, <<"b","m","p">>, <<"s","v","g">> }

videoExtensions ==
    { <<"m","p","4">>, <<"a","v","i">>, <<"m","o","v">>, <<"w","m","v">>,
      <<"f","l","v">>, <<"w","e","b","m">>, <<"m","k","v">> }

\* __dirname, the directory that holds server.js.
Dirname == << <<"a","p","p">> >>

\* path.join(__dirname, 'anhkiniem')
UploadDir == PathJoin(Dirname, <<"a","n","h","k","i","n","i","e","m">>)

\* The program's own file, next to the storage directory.
ServerJs == PathJoin(Dirname, <<"s","e","r","v","e","r",".","j","s">>)

\* upload.single('memory')
FieldName == "memory"

\* ------------------------------------------------------- request inputs

\* file.originalname of the uploads.
OriginalNames == { <<"a",".","p","n","g">>, <<"b"," ","c",".","d",".","m","p","4">> }

\* file.mimetype of the uploads.
MimeTypes == {"image/png", "video/mp4", "application/pdf"}

\* Byte counts of the uploaded payloads.
Sizes == {FileSizeLimit, FileSizeLimit + 1}

\* file.fieldname of the uploads.
FieldNames == {FieldName, "other"}

\* Values of Math.round(Math.random() * 1E9).
Randoms == {0, 1}

\* ------------------------------------------------------ pure functions

\* storage.filename: Date.now() + '-' + random + '-' + sanitised name.
StorageFilename(now, rnd, originalname) ==
    LET uniqueSuffix == NatToStr(now) \o <<"-">> \o NatToStr(rnd)
        originalName == ReplaceSpaces(originalname)
    IN  uniqueSuffix \o <<"-">> \o originalName

\* fileFilter: the upload passes when its declared type is on a list.
FileFilter(mimetype) ==
    mimetype \in allowedImageTypes \/ mimetype \in allowedVideoTypes

\* The type of a listed item, from the extension of its file name.
ItemType(filename) ==
    LET extension == Substring1(ToLowerCase(ExtName(filename)))
    IN  IF extension \in imageExtensions THEN "image"
        ELSE IF extension \in videoExtensions THEN "video"
        ELSE "unknown"

\* The text after the prefix in the title of a listed item:
\* filename.split('-').slice(2).join('-').split('.')[0]
TitleStem(filename) ==
    Split(Join(Slice(Split(filename, "-"), 2), "-"), ".")[1]

\* The prefix of every title, written without its diacritics and kept as
\* one element of the title.
TitlePrefix == <<"Ky niem ">>

\* The title of a listed item.
ItemTitle(filename) == TitlePrefix \o TitleStem(filename)

\* ----------------------------------------------------------- state

VARIABLES
    fs,         \* the file system: path |-> [kind, size, birthtime]
    clock,      \* Date.now()
    listening,  \* the listen callback has run
    uploads,    \* uploads being written: id |-> the multer file
    nreq,       \* number of uploads that reached the disk storage
    req,        \* the request answered last
    res         \* the response sent last

vars == <<fs, clock, listening, uploads, nreq, req, res>>

Dir(t) == [kind |-> "dir", size |-> 0, birthtime |-> t]

File(n, t) == [kind |-> "file", size |-> n, birthtime |-> t]

\* fs.existsSync
ExistsSync(f, path) == path \in DOMAIN f

\* path.join(uploadDir, filename) for a storage file name.
StoragePath(filename) == Append(UploadDir, filename)

\* The path names an entry of the storage directory.
InStorage(path) ==
    /\ Len(path) = Len(UploadDir) + 1
    /\ SubSeq(path, 1, Len(UploadDir)) = UploadDir

\* fs.readdirSync(memoriesDir), as a set: the names of the directory's entries.
StorageNames(f) == { p[Len(p)] : p \in { q \in DOMAIN f : InStorage(q) } }

\* The file system with one more entry, or one entry replaced.
WithEntry(f, path, entry) ==
    [p \in DOMAIN f \cup {path} |-> IF p = path THEN entry ELSE f[p]]

\* fs.mkdirSync(uploadDir, { recursive: true }) when the directory is absent.
EnsureDir(f, now) ==
    IF ExistsSync(f, UploadDir) THEN f ELSE WithEntry(f, UploadDir, Dir(now))

\* A removal that takes the whole directory of path with it.
UnlinkSiblings(f, path) ==
    [p \in {q \in DOMAIN f : \/ Len(q) # Len(path)
                              \/ SubSeq(q, 1, Len(q) - 1) # SubSeq(path, 1, Len(path) - 1)}
        |-> f[p]]

\* fs.unlinkSync / fs.unlink of an existing file: only that entry goes.
Unlink(f, path) == [p \in DOMAIN f \ {path} |-> f[p]]

\* The open write streams after the file at path is unlinked: those that
\* write to it keep writing to a file no directory names any more.
Detach(u, path) ==
    [id \in DOMAIN u |->
        IF StoragePath(u[id].filename) = path
        THEN [u[id] EXCEPT !.unlinked = TRUE] ELSE u[id]]

NoName == <<>>

NoRequest ==
    [kind |-> "none", fieldname |-> "", originalname |-> NoName,
     mimetype |-> "", size |-> 0, param |-> NoName]

UploadRequest(fieldname, originalname, mimetype, size) ==
    [kind |-> "upload", fieldname |-> fieldname, originalname |-> originalname,
     mimetype |-> mimetype, size |-> size, param |-> NoName]

ListRequest == [NoRequest EXCEPT !.kind = "list"]

DeleteRequest(param) == [NoRequest EXCEPT !.kind = "delete", !.param = param]

NoResponse ==
    [status |-> 0, success |-> FALSE, error |-> "", filename |-> NoName,
     size |-> 0, body |-> <<>>]

\* res.status(status).json({ success: false, error: error }); the error
\* text is named by a code.
ErrorResponse(status, error) ==
    [NoResponse EXCEPT !.status = status, !.error = error]

\* A response carries the fields its handler sets; the others keep the
\* value they have in NoResponse.

\* res.json({ success: true, filename, message, size }) of POST /upload
UploadedResponse(filename, size) ==
    [NoResponse EXCEPT !.status = 200, !.success = TRUE,
                       !.filename = filename, !.size = size]

\* res.json({ success: true, message }) of DELETE /delete/:filename
DeletedResponse == [NoResponse EXCEPT !.status = 200, !.success = TRUE]

\* res.json(memories) of GET /api/memories
ListedResponse(memories) == [NoResponse EXCEPT !.status = 200, !.body = memories]

\* ------------------------------------------------------------ listing

\* The orders in which fs.readdirSync may return the directory's entries:
\* the order is the file system's, so each one is possible.
ReadDirOrders(f) ==
    LET names == StorageNames(f)
        n == Cardinality(names)
    IN  { s \in [1..n -> names] : \A i, j \in 1..n : i # j => s[i] # s[j] }

\* One element of the files.map(...) of GET /api/memories.
Memory(f, filename) ==
    LET stats == f[StoragePath(filename)]
    IN  [filename |-> filename,
         type |-> ItemType(filename),
         title |-> ItemTitle(filename),
         size |-> stats.size,
         created |-> stats.birthtime]

\* The comparator with its operands exchanged: oldest first.
CompareCreatedAscending(a, b) == a.created - b.created

\* The comparator of memories.sort: negative when a goes before b.
CompareCreated(a, b) == b.created - a.created

\* One step of the stable sort: x, which came after every element of the
\* sorted sequence s, goes behind the elements the comparator does not put
\* after it.
InsertSorted(s, x) ==
    LET k == Cardinality({i \in 1..Len(s) : CompareCreated(s[i], x) <= 0})
    IN  SubSeq(s, 1, k) \o <<x>> \o SubSeq(s, k + 1, Len(s))

RECURSIVE SortMemories(_)
\* memories.sort((a, b) => new Date(b.created) - new Date(a.created))
SortMemories(s) ==
    IF s = <<>> THEN <<>>
    ELSE InsertSorted(SortMemories(SubSeq(s, 1, Len(s) - 1)), s[Len(s)])

\* A listing that takes an empty directory for a failure.
ListResponseEmptyFails(f, files) ==
    IF files = <<>> THEN ErrorResponse(500, "LIST_FAILED")
    ELSE ListedResponse(SortMemories([i \in 1..Len(files) |-> Memory(f, files[i])]))

\* The response of GET /api/memories when readdirSync returns files.
ListResponse(f, files) ==
    IF ~ExistsSync(f, UploadDir) THEN ListedResponse(<<>>)
    ELSE ListedResponse(SortMemories([i \in 1..Len(files) |-> Memory(f, files[i])]))

\* ------------------------------------------------------------ actions

\* The callback of app.listen: the storage directory is made when absent.
Listen ==
    /\ ~listening
    /\ listening' = TRUE
    /\ fs' = EnsureDir(fs, clock)
    /\ UNCHANGED <<clock, uploads, nreq, req, res>>

\* Time passes: Date.now() grows.
Tick ==
    /\ clock < MaxClock
    /\ clock' = clock + 1
    /\ UNCHANGED <<fs, listening, uploads, nreq, req, res>>

\* GET /api/memories
List ==
    /\ listening
    /\ \E files \in ReadDirOrders(fs) :
          /\ req' = ListRequest
          /\ res' = ListResponse(fs, files)
    /\ UNCHANGED <<fs, clock, listening, uploads, nreq>>

\* POST /upload with no file part: req.file is undefined.
UploadNoFile ==
    /\ listening
    /\ req' = [NoRequest EXCEPT !.kind = "upload"]
    /\ res' = ErrorResponse(400, "NO_FILE")
    /\ UNCHANGED <<fs, clock, listening, uploads, nreq>>

\* The file createWriteStream opens at path: an existing file is truncated
\* and keeps its creation time, a new one is created now.
OpenForWrite(f, path, now) ==
    IF ExistsSync(f, path)
    THEN WithEntry(f, path, [f[path] EXCEPT !.size = 0])
    ELSE WithEntry(f, path, File(0, now))

\* POST /upload, from the arrival of the file part: multer checks the field,
\* runs fileFilter, and on acceptance the disk storage names the file and
\* opens it.  A refusal is answered at once by the error-handling
\* middleware; an accepted file is answered when its last byte is in
\* (UploadEnd).
UploadBegin(fieldname, originalname, mimetype, size, rnd) ==
    /\ listening
    /\ nreq < MaxUploads
    /\ IF fieldname # FieldName
       THEN /\ req' = UploadRequest(fieldname, originalname, mimetype, size)
            /\ res' = ErrorResponse(400, "LIMIT_UNEXPECTED_FILE")
            /\ UNCHANGED <<fs, uploads, nreq>>
       ELSE IF ~FileFilter(mimetype)
       THEN /\ req' = UploadRequest(fieldname, originalname, mimetype, size)
            /\ res' = ErrorResponse(500, "FILTER_ERROR")
            /\ UNCHANGED <<fs, uploads, nreq>>
       ELSE LET safeFilename == StorageFilename(clock, rnd, originalname)
                file == [fieldname |-> fieldname, originalname |-> originalname,
                         mimetype |-> mimetype, size |-> size,
                         filename |-> safeFilename, unlinked |-> FALSE]
            IN  /\ fs' = OpenForWrite(EnsureDir(fs, clock), StoragePath(safeFilename), clock)
                /\ nreq' = nreq + 1
                /\ uploads' = [id \in DOMAIN uploads \cup {nreq + 1} |->
                                  IF id = nreq + 1 THEN file ELSE uploads[id]]
                /\ UNCHANGED <<req, res>>
    /\ UNCHANGED <<clock, listening>>

\* The file after the stream of an upload has written n bytes from offset 0.
Written(f, file, n) ==
    LET path == StoragePath(file.filename)
    IN  IF file.unlinked \/ ~ExistsSync(f, path) THEN f
        ELSE WithEntry(f, path,
                       [f[path] EXCEPT !.size = IF n > @ THEN n ELSE @])

\* multer's removal of the file of an aborted upload: fs.unlink(path).
RemoveFile(f, file) ==
    LET path == StoragePath(file.filename)
    IN  IF ExistsSync(f, path) THEN Unlink(f, path) ELSE f

\* POST /upload, the end of the file part.  A payload over the limit is
\* cut at the limit, the file is removed and the MulterError
\* LIMIT_FILE_SIZE goes to the error-handling middleware; otherwise the
\* route handler answers with the stored name and size.
UploadEnd(id) ==
    /\ id \in DOMAIN uploads
    /\ LET file == uploads[id]
           rest == [i \in DOMAIN uploads \ {id} |-> uploads[i]]
       IN  /\ req' = UploadRequest(file.fieldname, file.originalname,
                                   file.mimetype, file.size)
           /\ IF file.size > FileSizeLimit
              THEN /\ fs' = RemoveFile(Written(fs, file, FileSizeLimit), file)
                   /\ uploads' = Detach(rest, StoragePath(file.filename))
                   /\ res' = ErrorResponse(400, "LIMIT_FILE_SIZE")
              ELSE /\ fs' = Written(fs, file, file.size)
                   /\ uploads' = rest
                   /\ res' = UploadedResponse(file.filename, file.size)
    /\ UNCHANGED <<clock, listening, nreq>>

\* DELETE /delete/:filename; param is the decoded route parameter.
Delete(param) ==
    /\ listening
    /\ req' = DeleteRequest(param)
    /\ LET filePath == PathJoin(UploadDir, param)
       IN  IF ~ExistsSync(fs, filePath)
           THEN /\ res' = ErrorResponse(404, "NOT_FOUND")
                /\ UNCHANGED <<fs, uploads>>
           ELSE IF fs[filePath].kind = "dir"
           THEN \* unlinkSync throws on a directory
                /\ res' = ErrorResponse(500, "DELETE_FAILED")
                /\ UNCHANGED <<fs, uploads>>
           ELSE /\ fs' = Unlink(fs, filePath)
                /\ uploads' = Detach(uploads, filePath)
                /\ res' = DeletedResponse
    /\ UNCHANGED <<clock, listening, nreq>>

\* ------------------------------------------------------ specification

\* Route parameters that are not plain names: "../server.js" (sent as
\* ..%2Fserver.js) and "..".
TraversalParams ==
    { <<".", ".", "/", "s","e","r","v","e","r",".","j","s">>, <<".", ".">> }

\* A name no upload was stored under.
MissingName == <<"x",".","p","n","g">>

\* The plain names among the :filename parameters of the delete requests:
\* the names in the storage directory, the name of the delete request
\* before (deleted already, when that one succeeded) and a name never
\* stored.
PlainParams ==
    StorageNames(fs) \cup (IF req.kind = "delete" THEN {req.param} ELSE {})
        \cup {MissingName}

\* The :filename parameters of the delete requests.
DeleteParams == PlainParams \cup TraversalParams

\* The file system before the server starts: the program's directory with
\* server.js, and the storage directory when dirThere.
BaseFs(dirThere) ==
    LET paths == {Dirname, ServerJs} \cup (IF dirThere THEN {UploadDir} ELSE {})
    IN  [p \in paths |-> IF p = ServerJs THEN File(1, 0) ELSE Dir(0)]

Init ==
    /\ \E dirThere \in BOOLEAN : fs = BaseFs(dirThere)
    /\ clock = 1
    /\ listening = FALSE
    /\ uploads = <<>>
    /\ nreq = 0
    /\ req = NoRequest
    /\ res = NoResponse

Next ==
    \/ Listen
    \/ Tick
    \/ List
    \/ UploadNoFile
    \/ \E fieldname \in FieldNames, originalname \in OriginalNames,
          mimetype \in MimeTypes, size \in Sizes, rnd \in Randoms :
          UploadBegin(fieldname, originalname, mimetype, size, rnd)
    \/ \E id \in 1..MaxUploads : UploadEnd(id)
    \/ \E param \in DeleteParams : Delete(param)

Spec == Init /\ [][Next]_vars

\* The server under well-formed requests only: one original name, one
\* accepted type, the expected field, plain names in the delete requests.
NextStore ==
    \/ Listen
    \/ Tick
    \/ List
    \/ \E size \in Sizes, rnd \in Randoms :
          UploadBegin(FieldName, <<"a",".","p","n","g">>, "image/png", size, rnd)
    \/ \E id \in 1..MaxUploads : UploadEnd(id)
    \/ \E param \in PlainParams : Delete(param)

SpecStore == Init /\ [][NextStore]_vars

\* Names of files left in the storage directory by earlier runs or put
\* there by hand: two in the generator's format, two not.
LegacyNames ==
    { StorageFilename(1, 0, <<"a",".","p","n","g">>),
      StorageFilename(2, 1, <<"b",".","M","P","4">>),
      <<"o","l","d",".","b","m","p">>,
      <<"n","o","t","e","s">> }

\* The server started on a storage directory that holds up to MaxLegacy
\* files, each created at some time up to MaxClock.
InitList ==
    /\ \E names \in SUBSET LegacyNames :
          /\ Cardinality(names) <= MaxLegacy
          /\ \E birth \in [names -> 0..MaxClock] :
                fs = [p \in DOMAIN BaseFs(TRUE) \cup {StoragePath(n) : n \in names} |->
                         IF p \in DOMAIN BaseFs(TRUE) THEN BaseFs(TRUE)[p]
                         ELSE File(1, birth[p[Len(p)]])]
    /\ clock = MaxClock
    /\ listening = FALSE
    /\ uploads = <<>>
    /\ nreq = 0
    /\ req = NoRequest
    /\ res = NoResponse

\* Listing and deleting, with no upload.
NextList ==
    \/ Listen
    \/ List
    \/ \E param \in PlainParams : Delete(param)

SpecList == InitList /\ [][NextList]_vars

\* ------------------------------------------------------------- claims

\* The file names of a listing.
BodyNames(body) == {body[i].filename : i \in 1..Len(body)}

\* The paths of the file system that are no entry of the storage directory.
Outside(f) == {p \in DOMAIN f : ~InStorage(p)}

\* The category of an accepted MIME type.
MimeCategory(mimetype) ==
    IF mimetype \in allowedImageTypes THEN "image" ELSE "video"

\* A name without its extension (path.extname).
StripExtension(s) == SubSeq(s, 1, Len(s) - Len(ExtName(s)))

\* C1: an upload in the expected field whose declared MIME type is outside
\* the allow-list is answered 400 with success false, and the set of files
\* in the storage directory is the same after it.
C1_TypeRejectedWith400 ==
    [][\A originalname \in OriginalNames, mimetype \in MimeTypes,
          size \in Sizes, rnd \in Randoms :
          (/\ UploadBegin(FieldName, originalname, mimetype, size, rnd)
           /\ mimetype \notin allowedImageTypes \cup allowedVideoTypes)
          => /\ res'.status = 400
             /\ ~res'.success
             /\ StorageNames(fs') = StorageNames(fs)]_vars

\* C2: an upload the storage accepts never writes to a path that is in the
\* storage directory already, the directory grows by exactly one file, and
\* the uploads being written have pairwise distinct storage names.
C2_UploadsNeverCollide ==
    [][nreq' = nreq + 1
          => /\ StoragePath(uploads'[nreq'].filename) \notin DOMAIN fs
             /\ Cardinality(StorageNames(fs')) = Cardinality(StorageNames(fs)) + 1
             /\ \A i, j \in DOMAIN uploads' :
                   i # j => uploads'[i].filename # uploads'[j].filename]_vars

\* C3: a delete request for a name that is not in the storage directory is
\* answered 404 with success false, never success and never a server error.
C3_AbsentNameIsNotFound ==
    [][\A param \in DeleteParams :
          (Delete(param) /\ param \notin StorageNames(fs))
          => (res'.status = 404 /\ ~res'.success)]_vars

\* C4: a listing that follows an accepted upload, with no upload or delete
\* in between, holds exactly one item with the name the upload returned;
\* its size is the uploaded byte count and its type is the category of the
\* accepted MIME type.
C4_ListAfterUpload ==
    [][(/\ List
        /\ req.kind = "upload" /\ res.status = 200 /\ res.success
        /\ uploads = <<>>)
          => LET body == res'.body
                 new == {i \in 1..Len(body) : body[i].filename = res.filename}
             IN  /\ res'.status = 200
                 /\ Cardinality(new) = 1
                 /\ \A i \in new : /\ body[i].size = req.size
                                   /\ body[i].type = MimeCategory(req.mimetype)]_vars

\* C5: the title derived from a generated storage name is the prefix
\* followed by the sanitised original name without its file extension.
C5_TitleInvertsGeneration ==
    \A id \in DOMAIN uploads :
        ItemTitle(uploads[id].filename)
            = TitlePrefix \o StripExtension(ReplaceSpaces(uploads[id].originalname))

\* C6: a delete request whose name holds a path-traversal segment is
\* rejected (it is not answered with success), and no delete request
\* removes a file that lies outside the storage directory.
C6_DeleteConfinedToStorage ==
    [][\A param \in DeleteParams :
          Delete(param)
          => /\ param \in TraversalParams
                   => (res'.status # 200 /\ ~res'.success)
             /\ \A p \in Outside(fs) : p \in DOMAIN fs']_vars

\* C7: a listing is in descending order of creation time: of two adjacent
\* items the first was created no earlier than the second; and the listing
\* holds each file of the storage directory once, with its creation time.
C7_ListingNewestFirst ==
    (req.kind = "list" /\ res.status = 200)
    => /\ \A i \in 1..(Len(res.body) - 1) :
             res.body[i].created >= res.body[i + 1].created
       /\ BodyNames(res.body) = StorageNames(fs)
       /\ Len(res.body) = Cardinality(StorageNames(fs))
       /\ \A i \in 1..Len(res.body) :
             res.body[i].created = fs[StoragePath(res.body[i].filename)].birthtime

\* C7 witness: a listing of three files created at three different times.
C7_Witness ==
    /\ req.kind = "list" /\ res.status = 200
    /\ Len(res.body) = 3
    /\ res.body[1].created > res.body[2].created
    /\ res.body[2].created > res.body[3].created

\* C8: an upload whose payload exceeds 20 MiB is answered 400 with success
\* false and its file is not in the storage directory afterwards; an upload
\* of at most 20 MiB with an allowed type is answered 200 with success.
C8_OversizeRejectedWith400 ==
    [][/\ \A originalname \in OriginalNames, mimetype \in MimeTypes,
             size \in Sizes, rnd \in Randoms :
             (/\ UploadBegin(FieldName, originalname, mimetype, size, rnd)
              /\ nreq' = nreq
              /\ size > 20 * 1024 * 1024)
             => (res'.status = 400 /\ ~res'.success)
       /\ \A id \in DOMAIN uploads :
             UploadEnd(id)
             => IF uploads[id].size > 20 * 1024 * 1024
                THEN /\ res'.status = 400 /\ ~res'.success
                     /\ uploads[id].filename \notin StorageNames(fs')
                ELSE /\ res'.status = 200 /\ res'.success
                     /\ res'.size = uploads[id].size]_vars

\* C9: a delete request for the name of a file in the storage directory is
\* answered 200 with success, removes that file and changes no other file;
\* every listing holds exactly the names in the storage directory, so it
\* omits the deleted name and keeps the others; and a name that is not in
\* the directory comes into it only by a new upload.
C9_DeleteRemovesOnlyThatFile ==
    [][/\ \A param \in PlainParams :
             (/\ Delete(param)
              /\ param \in StorageNames(fs)
              /\ fs[StoragePath(param)].kind = "file")
             => /\ res'.status = 200 /\ res'.success
                /\ DOMAIN fs' = DOMAIN fs \ {StoragePath(param)}
                /\ \A p \in DOMAIN fs' : fs'[p] = fs[p]
       /\ List => /\ BodyNames(res'.body) = StorageNames(fs)
                  /\ Len(res'.body) = Cardinality(StorageNames(fs))
       /\ (StorageNames(fs') \ StorageNames(fs) # {}) => nreq' = nreq + 1]_vars

\* C9 witness: a file was deleted with success and another file is still
\* in the storage directory.
C9_Witness ==
    /\ req.kind = "delete" /\ res.status = 200 /\ res.success
    /\ req.param \notin StorageNames(fs)
    /\ StorageNames(fs) # {}

\* C10: a listing of a storage directory that is absent or holds no entry
\* is answered 200 with an empty array, and leaves the file system as it
\* was.
C10_EmptyListingIsNoError ==
    [][(List /\ (~ExistsSync(fs, UploadDir) \/ StorageNames(fs) = {}))
          => /\ res'.status = 200
             /\ res'.body = <<>>
             /\ res'.error = ""
             /\ fs' = fs]_vars

\* C10 witness: the storage directory, emptied again after an upload, was
\* listed and the answer was the empty array.
C10_Witness ==
    /\ req.kind = "list" /\ res.status = 200 /\ res.body = <<>>
    /\ nreq > 0 /\ uploads = <<>>
    /\ StorageNames(fs) = {}

====
